---- MODULE Spec2Model ----
(***************************************************************************)
(* Model of package pipeline (pipeline.go): the ActivePipelines registry   *)
(* (a slice guarded by a sync.RWMutex, with Append, Iter and Contains),    *)
(* the NewBuildPipeline factory and the appendTypeToName naming helper.    *)
(*                                                                         *)
(* calls holds the calls in progress, each made by a goroutine of its own, *)
(* in the order in which they were made.  Every call of Iter starts one    *)
(* more goroutine, an element of the sequence iters, that locks the        *)
(* registry and sends its entries over an unbuffered channel.              *)
(* The variable obs describes the call that returned in the latest step    *)
(* (what it returned, and the history when it was made); it is empty       *)
(* after every other step.                                                 *)
(***************************************************************************)
EXTENDS Integers, Sequences, FiniteSets, TLC

\* ------------------------------------------------------------------ bounds
\* Number of calls that can be in progress at the same time.
MaxPending == 2
\* Total number of calls (Append, Contains, Iter) in one behaviour.
MaxCalls == 4
\* Longest pipeline name given to appendTypeToName.
MaxNameLen == 3
\* Number of build attempts driven at the same time.
MaxBuilds == 2

\* --------------------------------------------------------------- data types
\* Pipeline names used in the registry.
Names == {"a", "b"}

\* gaia.Pipeline: the Name that Contains compares, and an ID standing for the
\* rest of the value (two Append calls never pass the same value here).
Pipeline(n, id) == [Name |-> n, ID |-> id]

NoPipeline == Pipeline("", 0)

\* The mutex is free, or held by the Append call of the pipeline with the
\* given ID, or by an Iter goroutine.
Free == <<"free", 0>>

ByAppend(pl) == <<"append", pl.ID>>

ByIter(i) == <<"iter", i>>

VARIABLES
    Pipelines,  \* ap.Pipelines, the slice of the registry
    lock,       \* the holder of ap's mutex (only Lock/Unlock are ever used)
    calls,      \* the calls in progress, in the order in which they were made
    iters,      \* the goroutines started by Iter, in the order of their start
    hist,       \* history: the pipelines in the order Append stored them
    returned,   \* history: the pipelines whose Append call has returned, in order
    invoked,    \* history: the pipelines passed to Append, in order of the calls
    guarded,    \* history: the IDs of the pipelines appended by a caller whose
                \* Contains(Name) had just returned false
    obs,        \* history: the call that has returned in the latest step
    lastTrav,   \* history: the latest fully consumed traversal, if the registry
                \* has not changed since that traversal was asked for
    before,     \* history: the pairs <<a, b>> of pipeline IDs such that
                \* Append(a) had returned when Append(b) was called
    pure,       \* inputs and results of the pure functions (PureSpec only)
    build       \* the build attempts and their lifecycle states (BuildSpec only)

vars ==
    <<Pipelines, lock, calls, iters, hist, returned, invoked, guarded, obs,
      lastTrav, before, pure, build>>

\* ------------------------------------------------------------ pure helpers
IsPrefix(s, t) == Len(s) <= Len(t) /\ SubSeq(t, 1, Len(s)) = s

Range(s) == {s[k] : k \in 1..Len(s)}

NamesOf(s) == {s[k].Name : k \in 1..Len(s)}

\* Number of entries of s named n.
CountName(s, n) == Cardinality({k \in 1..Len(s) : s[k].Name = n})

\* s without its k-th element.
Without(s, k) == SubSeq(s, 1, k - 1) \o SubSeq(s, k + 1, Len(s))

\* Mutants of append: the new entry goes first; an entry whose name is
\* already there is dropped.
appendMutPrepend(s, e) == <<e>> \o s

appendMutUnique(s, e) == IF e.Name \in NamesOf(s) THEN s ELSE s \o <<e>>

\* Go's builtin append(s, e), as Append uses it: e goes to the end.
append(s, e) == s \o <<e>>

\* Mutant of CanLock: Lock never waits.
CanLockMutNoExclusion == TRUE

\* sync.RWMutex.Lock can proceed only while nobody holds the mutex.
CanLock == lock = Free

\* Mutant of Match: the comparison is inverted.
MatchMutInverted(pipeline, n) == pipeline.Name # n

\* if pipeline.Name == n
Match(pipeline, n) == pipeline.Name = n

\* NewActivePipelines: Pipelines: make([]gaia.Pipeline, 0).
NewActivePipelines == << >>

\* -------------------------------------------------------------- the calls
NoTrav == [valid |-> FALSE, yielded |-> << >>]

NoObs ==
    [op |-> "none", n |-> "", pl |-> NoPipeline, it |-> 0, result |-> FALSE,
     yielded |-> << >>, callRet |-> << >>, prev |-> NoTrav]

\* c := make(chan gaia.Pipeline); go func() {...}(): a goroutine that has not
\* locked yet.
NewIter == [pc |-> "lock", snap |-> << >>, idx |-> 0, closed |-> FALSE]

\* Iter(): starts the goroutine and returns its channel (the goroutine's index).
Iter(its) == its \o <<NewIter>>

\* The calls made so far, and the Append calls that callers in
\* if !ap.Contains(n) { ap.Append(p) } may still make.
Calls ==
    Len(invoked) + Len(iters)
        + Cardinality({c \in 1..Len(calls) : calls[c].op = "Contains" /\ calls[c].guard})

\* A call in progress.  callRet is history: the Append calls that had returned
\* when this call was made.  guard: the caller appends a pipeline of this name
\* if Contains returns false.
Call(op, pc, n, pl, it, guard) ==
    [op |-> op, pc |-> pc, n |-> n, pl |-> pl, tmp |-> << >>, it |-> it,
     yielded |-> << >>, callRet |-> returned, guard |-> guard]

\* What obs keeps of the call r that returns now with the given result.
Observe(r, result, yielded) ==
    [op |-> r.op, n |-> r.n, pl |-> r.pl, it |-> r.it, result |-> result,
     yielded |-> yielded, callRet |-> r.callRet, prev |-> lastTrav]

\* What before becomes when Append(pl) is called: every Append that has
\* returned by now has returned before this call.
CalledAfter(pl) == before \cup {<<returned[k].ID, pl.ID>> : k \in 1..Len(returned)}

\* A caller enters Append(p).
AppendCall(n) ==
    /\ Len(calls) < MaxPending
    /\ Calls < MaxCalls
    /\ LET pl == Pipeline(n, Len(invoked) + 1) IN
         /\ calls' = Append(calls, Call("Append", "append_lock", n, pl, 0, FALSE))
         /\ invoked' = invoked \o <<pl>>
         /\ before' = CalledAfter(pl)
    /\ obs' = NoObs
    /\ UNCHANGED <<Pipelines, lock, iters, hist, returned, guarded, lastTrav, pure, build>>

\* ap.Lock(), and the right-hand side of
\* ap.Pipelines = append(ap.Pipelines, p) reads the slice.
AppendLock(c) ==
    /\ calls[c].pc = "append_lock"
    /\ CanLock
    /\ lock' = ByAppend(calls[c].pl)
    /\ calls' = [calls EXCEPT ![c].pc = "append_store", ![c].tmp = Pipelines]
    /\ obs' = NoObs
    /\ UNCHANGED <<Pipelines, iters, hist, returned, invoked, guarded, lastTrav, before, pure, build>>

\* The assignment stores the extended slice; then the deferred ap.Unlock()
\* runs and the call returns.
AppendStore(c) ==
    /\ calls[c].pc = "append_store"
    /\ Pipelines' = append(calls[c].tmp, calls[c].pl)
    /\ hist' = hist \o <<calls[c].pl>>
    /\ lock' = Free
    /\ returned' = returned \o <<calls[c].pl>>
    /\ guarded' = IF calls[c].guard THEN guarded \cup {calls[c].pl.ID} ELSE guarded
    /\ obs' = Observe(calls[c], FALSE, << >>)
    /\ calls' = Without(calls, c)
    /\ lastTrav' = NoTrav
    /\ UNCHANGED <<iters, invoked, before, pure, build>>

\* A caller enters Contains(n): for pipeline := range ap.Iter().  With guard,
\* the caller is in if !ap.Contains(n) { ap.Append(p) }, p.Name being n.
ContainsCall(n, guard) ==
    /\ Len(calls) < MaxPending
    /\ Calls + (IF guard THEN 1 ELSE 0) < MaxCalls
    /\ iters' = Iter(iters)
    /\ calls' = Append(calls, Call("Contains", "recv", n, NoPipeline, Len(iters) + 1, guard))
    /\ obs' = NoObs
    /\ UNCHANGED <<Pipelines, lock, hist, returned, invoked, guarded, lastTrav, before, pure, build>>

\* A caller calls Iter() itself and then receives until the channel is closed.
IterCall ==
    /\ Len(calls) < MaxPending
    /\ Calls < MaxCalls
    /\ iters' = Iter(iters)
    /\ calls' = Append(calls, Call("Iter", "recv", "", NoPipeline, Len(iters) + 1, FALSE))
    /\ obs' = NoObs
    /\ UNCHANGED <<Pipelines, lock, hist, returned, invoked, guarded, lastTrav, before, pure, build>>

\* -------------------------------------------------------- Iter's goroutine
\* ap.Lock(), and for _, pipeline := range ap.Pipelines evaluates its range
\* expression, once: the loop runs over the slice as it is now.
IterLock(i) ==
    /\ iters[i].pc = "lock"
    /\ CanLock
    /\ lock' = ByIter(i)
    /\ iters' = [iters EXCEPT ![i].pc = "loop", ![i].snap = Pipelines, ![i].idx = 1]
    /\ obs' = NoObs
    /\ UNCHANGED <<Pipelines, calls, hist, returned, invoked, guarded, lastTrav, before, pure, build>>

\* Mutant of Sending: the loop stops one entry early.
SendingMutOffByOne(i) == iters[i].pc = "loop" /\ iters[i].idx < Len(iters[i].snap)

\* The goroutine is in its range loop, blocked in c <- pipeline with its next
\* entry; the loop is over when no entry is left.
Sending(i) == iters[i].pc = "loop" /\ iters[i].idx <= Len(iters[i].snap)

\* c <- pipeline meets the receive of Contains's loop (the channel is
\* unbuffered): the loop body compares the name and returns true on a match.
ContainsRecv(c) ==
    /\ calls[c].pc = "recv" /\ calls[c].op = "Contains"
    /\ LET i == calls[c].it
           v == iters[i].snap[iters[i].idx]
       IN /\ Sending(i)
          /\ iters' = [iters EXCEPT ![i].idx = @ + 1]
          /\ IF Match(v, calls[c].n)
             THEN /\ calls' = Without(calls, c)
                  /\ obs' = Observe(calls[c], TRUE, Append(calls[c].yielded, v))
             ELSE /\ calls' = [calls EXCEPT ![c].yielded = Append(@, v)]
                  /\ obs' = NoObs
    /\ UNCHANGED <<Pipelines, lock, hist, returned, invoked, guarded, lastTrav, before, pure, build>>

\* The range loop of Contains ends on the closed channel: return false.  A
\* caller in if !ap.Contains(n) { ap.Append(p) } goes on and enters Append(p).
ContainsClosed(c) ==
    /\ calls[c].pc = "recv" /\ calls[c].op = "Contains"
    /\ iters[calls[c].it].closed
    /\ obs' = Observe(calls[c], FALSE, calls[c].yielded)
    /\ IF calls[c].guard
       THEN LET pl == Pipeline(calls[c].n, Len(invoked) + 1) IN
            /\ calls' = Append(Without(calls, c),
                               Call("Append", "append_lock", calls[c].n, pl, 0, TRUE))
            /\ invoked' = invoked \o <<pl>>
            /\ before' = CalledAfter(pl)
       ELSE /\ calls' = Without(calls, c)
            /\ invoked' = invoked
            /\ before' = before
    /\ UNCHANGED <<Pipelines, lock, iters, hist, returned, guarded, lastTrav, pure, build>>

\* c <- pipeline meets the receive of a caller that consumes Iter() itself.
TraverseRecv(c) ==
    /\ calls[c].pc = "recv" /\ calls[c].op = "Iter"
    /\ LET i == calls[c].it
           v == iters[i].snap[iters[i].idx]
       IN /\ Sending(i)
          /\ iters' = [iters EXCEPT ![i].idx = @ + 1]
          /\ calls' = [calls EXCEPT ![c].yielded = Append(@, v)]
    /\ obs' = NoObs
    /\ UNCHANGED <<Pipelines, lock, hist, returned, invoked, guarded, lastTrav, before, pure, build>>

\* That caller sees the channel closed: the traversal is fully consumed.
TraverseClosed(c) ==
    /\ calls[c].pc = "recv" /\ calls[c].op = "Iter"
    /\ iters[calls[c].it].closed
    /\ obs' = Observe(calls[c], FALSE, calls[c].yielded)
    /\ lastTrav' = IF calls[c].callRet = hist
                   THEN [valid |-> TRUE, yielded |-> calls[c].yielded]
                   ELSE NoTrav
    /\ calls' = Without(calls, c)
    /\ UNCHANGED <<Pipelines, lock, iters, hist, returned, invoked, guarded, before, pure, build>>

\* The range loop is over: close(c).
IterClose(i) ==
    /\ iters[i].pc = "loop"
    /\ ~Sending(i)
    /\ iters' = [iters EXCEPT ![i].pc = "unlock", ![i].closed = TRUE]
    /\ obs' = NoObs
    /\ UNCHANGED <<Pipelines, lock, calls, hist, returned, invoked, guarded, lastTrav, before, pure, build>>

\* defer ap.Unlock(), and the goroutine ends.
IterUnlock(i) ==
    /\ iters[i].pc = "unlock"
    /\ lock' = Free
    /\ iters' = [iters EXCEPT ![i] = [pc |-> "done", snap |-> << >>, idx |-> 0,
                                      closed |-> TRUE]]
    /\ obs' = NoObs
    /\ UNCHANGED <<Pipelines, calls, hist, returned, invoked, guarded, lastTrav, before, pure, build>>

\* ------------------------------------------- the factory and the naming helper
\* gaia.PipelineType and its values: GOLANG is the one the factory knows.
GOLANG == "golang"

PipelineTypes == {GOLANG, "unknown", "java"}

\* PipelineType.String(): the type's canonical string form, as characters.
TypeString(t) ==
    CASE t = GOLANG -> <<"g", "o", "l", "a", "n", "g">>
      [] t = "unknown" -> <<"u", "n", "k", "n", "o", "w", "n">>
      [] t = "java" -> <<"j", "a", "v", "a">>

\* var bP BuildPipeline: the nil interface value.
NilBuildPipeline == [isNil |-> TRUE, Type |-> ""]

\* &BuildPipelineGolang{Type: t}
BuildPipelineGolang(t) == [isNil |-> FALSE, Type |-> t]

\* Mutants of NewBuildPipeline: the switch has lost its case label; the
\* instance is made with a fixed type.
NewBuildPipelineMutNoSwitch(t) == BuildPipelineGolang(t)

\* NewBuildPipeline: switch t { case gaia.GOLANG: ... }; return bP.
NewBuildPipeline(t) ==
    IF t = GOLANG THEN BuildPipelineGolang(t) ELSE NilBuildPipeline

\* typeDelimiter = "_"
typeDelimiter == <<"_">>

\* Mutant of appendTypeToName: the delimiter is left out of the format.
appendTypeToNameMutNoDelimiter(n, pType) == n \o TypeString(pType)

\* appendTypeToName: fmt.Sprintf("%s%s%s", n, typeDelimiter, pType.String())
appendTypeToName(n, pType) == n \o typeDelimiter \o TypeString(pType)

\* The characters of pipeline names, the delimiter among them.
Chars == {"a", "b", "_"}

\* All names of at most MaxNameLen characters.
NameStrings == UNION {[1..k -> Chars] : k \in 0..MaxNameLen}

HasDelimiter(s) == \E k \in 1..Len(s) : <<s[k]>> = typeDelimiter

\* Recovering name and type from an artifact name: split at the first
\* delimiter and read the suffix as a type ("" when it is no type's string).
SplitName(s) ==
    IF HasDelimiter(s)
    THEN LET k == CHOOSE j \in 1..Len(s) :
                    /\ <<s[j]>> = typeDelimiter
                    /\ \A h \in 1..(j - 1) : <<s[h]>> # typeDelimiter
         IN <<SubSeq(s, 1, k - 1), SubSeq(s, k + 1, Len(s))>>
    ELSE <<s, << >> >>

ParseType(suffix) ==
    IF \E t \in PipelineTypes : TypeString(t) = suffix
    THEN CHOOSE t \in PipelineTypes : TypeString(t) = suffix
    ELSE ""

ParseName(s) == <<SplitName(s)[1], ParseType(SplitName(s)[2])>>

regVars ==
    <<Pipelines, lock, calls, iters, hist, returned, invoked, guarded, obs, lastTrav,
      before>>

PureIdle ==
    [phase |-> "off", n |-> << >>, t |-> "", bP |-> NilBuildPipeline,
     encoded |-> << >>, parsed |-> << << >>, "" >>]

\* A caller asks the factory for the builder of its pipeline's type.
DoNewBuildPipeline ==
    /\ pure.phase = "input"
    /\ pure' = [pure EXCEPT !.phase = "built", !.bP = NewBuildPipeline(pure.t)]
    /\ UNCHANGED <<regVars, build>>

\* The artifact's name is made from the pipeline's name and type.
DoAppendTypeToName ==
    /\ pure.phase = "built"
    /\ pure' = [pure EXCEPT !.phase = "named",
                            !.encoded = appendTypeToName(pure.n, pure.t)]
    /\ UNCHANGED <<regVars, build>>

\* The name and the type are read back from the artifact's name.
DoParseName ==
    /\ pure.phase = "named"
    /\ pure' = [pure EXCEPT !.phase = "parsed", !.parsed = ParseName(pure.encoded)]
    /\ UNCHANGED <<regVars, build>>

\* ------------------------------------------------ the build-pipeline lifecycle
\* maxTimeoutMinutes = 60: the minutes after which the build is interrupted.
maxTimeoutMinutes == 60

Builds == 1..MaxBuilds

\* The states of a build attempt.  PrepareEnvironment, ExecuteBuild and
\* CopyBinary run in Preparing, Building and Copying.
NonTerminal == {"Pending", "Preparing", "Building", "Copying"}

Terminal == {"Done", "Failed", "TimedOut"}

\* The kinds of error a stage fails with: an unrecognized type before the
\* lifecycle is entered, EnvironmentError, BuildError (the compiler's or the
\* infrastructure's), ArtifactError.
ErrorKinds(st) ==
    CASE st = "Pending" -> {"ConfigurationError"}
      [] st = "Preparing" -> {"EnvironmentError"}
      [] st = "Building" -> {"BuildError:compiler", "BuildError:infrastructure"}
      [] st = "Copying" -> {"ArtifactError"}

\* A build attempt: its state, the minutes ExecuteBuild has run, and for a
\* failed one the stage that failed and the kind of its error.
BuildIn(st, elapsed, stage, kind) ==
    [st |-> st, elapsed |-> elapsed, stage |-> stage, kind |-> kind]

NewBuild == BuildIn("Pending", 0, "", "")

\* Mutant of CanTimeout: the timeout fires in whatever stage the attempt is.
CanTimeoutMutAnyStage(b) == build[b].st \in NonTerminal

\* The timeout bounds ExecuteBuild only: it fires when the ceiling is reached.
CanTimeout(b) == build[b].st = "Building" /\ build[b].elapsed = maxTimeoutMinutes

\* The caller starts stage one, PrepareEnvironment.
PrepareEnvironment(b) ==
    /\ build[b].st = "Pending"
    /\ build' = [build EXCEPT ![b] = BuildIn("Preparing", 0, "", "")]
    /\ UNCHANGED <<regVars, pure>>

\* PrepareEnvironment has succeeded: the caller starts ExecuteBuild.
ExecuteBuild(b) ==
    /\ build[b].st = "Preparing"
    /\ build' = [build EXCEPT ![b] = BuildIn("Building", 0, "", "")]
    /\ UNCHANGED <<regVars, pure>>

\* A minute passes while the compiler runs.
BuildTick(b) ==
    /\ build[b].st = "Building"
    /\ build[b].elapsed < maxTimeoutMinutes
    /\ build' = [build EXCEPT ![b].elapsed = @ + 1]
    /\ UNCHANGED <<regVars, pure>>

\* ExecuteBuild has succeeded within the ceiling: the caller starts CopyBinary.
CopyBinary(b) ==
    /\ build[b].st = "Building"
    /\ build[b].elapsed < maxTimeoutMinutes
    /\ build' = [build EXCEPT ![b] = BuildIn("Copying", 0, "", "")]
    /\ UNCHANGED <<regVars, pure>>

\* CopyBinary has succeeded: the attempt is done.
BuildDone(b) ==
    /\ build[b].st = "Copying"
    /\ build' = [build EXCEPT ![b] = BuildIn("Done", 0, "", "")]
    /\ UNCHANGED <<regVars, pure>>

\* The ceiling is reached: the compiler is terminated, BuildTimeoutError.
BuildTimeout(b) ==
    /\ CanTimeout(b)
    /\ build' = [build EXCEPT ![b] = BuildIn("TimedOut", build[b].elapsed, "", "")]
    /\ UNCHANGED <<regVars, pure>>

\* The stage the attempt is in fails with an error of one of its kinds.
BuildFail(b, kind) ==
    /\ build[b].st \in NonTerminal
    /\ kind \in ErrorKinds(build[b].st)
    /\ build' = [build EXCEPT ![b] = BuildIn("Failed", 0, build[b].st, kind)]
    /\ UNCHANGED <<regVars, pure>>

AllErrorKinds == UNION {ErrorKinds(st) : st \in NonTerminal}

\* ------------------------------------------------------------ specification
Init ==
    /\ Pipelines = NewActivePipelines
    /\ lock = Free
    /\ calls = << >>
    /\ iters = << >>
    /\ hist = << >>
    /\ returned = << >>
    /\ invoked = << >>
    /\ guarded = {}
    /\ obs = NoObs
    /\ lastTrav = NoTrav
    /\ before = {}
    /\ pure = PureIdle
    /\ build = [b \in Builds |-> NewBuild]

Next ==
    \/ \E n \in Names : AppendCall(n)
    \/ \E c \in 1..Len(calls) : AppendLock(c)
    \/ \E c \in 1..Len(calls) : AppendStore(c)
    \/ \E n \in Names, guard \in BOOLEAN : ContainsCall(n, guard)
    \/ IterCall
    \/ \E i \in 1..Len(iters) : IterLock(i)
    \/ \E c \in 1..Len(calls) : ContainsRecv(c)
    \/ \E c \in 1..Len(calls) : ContainsClosed(c)
    \/ \E c \in 1..Len(calls) : TraverseRecv(c)
    \/ \E c \in 1..Len(calls) : TraverseClosed(c)
    \/ \E i \in 1..Len(iters) : IterClose(i)
    \/ \E i \in 1..Len(iters) : IterUnlock(i)

Spec == Init /\ [][Next]_vars

\* The pure functions, applied to every name and type within the bounds.
PureInit ==
    /\ Pipelines = NewActivePipelines
    /\ lock = Free
    /\ calls = << >>
    /\ iters = << >>
    /\ hist = << >>
    /\ returned = << >>
    /\ invoked = << >>
    /\ guarded = {}
    /\ obs = NoObs
    /\ lastTrav = NoTrav
    /\ before = {}
    /\ \E n \in NameStrings, t \in PipelineTypes :
           pure = [PureIdle EXCEPT !.phase = "input", !.n = n, !.t = t]
    /\ build = [b \in Builds |-> NewBuild]

PureNext ==
    \/ DoNewBuildPipeline
    \/ DoAppendTypeToName
    \/ DoParseName

PureSpec == PureInit /\ [][PureNext]_vars

\* The build attempts, each driven through its lifecycle by its own worker.
BuildNext ==
    \/ \E b \in Builds : PrepareEnvironment(b)
    \/ \E b \in Builds : ExecuteBuild(b)
    \/ \E b \in Builds : BuildTick(b)
    \/ \E b \in Builds : CopyBinary(b)
    \/ \E b \in Builds : BuildDone(b)
    \/ \E b \in Builds : BuildTimeout(b)
    \/ \E b \in Builds, kind \in AllErrorKinds : BuildFail(b, kind)

BuildSpec == Init /\ [][BuildNext]_vars

\* Under fair scheduling: a goroutine that can take a step takes it (the Go
\* scheduler runs every runnable goroutine), and a goroutine waiting in Lock
\* gets the mutex if it is free again and again (sync.Mutex's starvation
\* mode hands the mutex to a waiter).  Callers are not obliged to make calls.
AppendLockOf(id) ==
    \E c \in 1..Len(calls) : calls[c].pl.ID = id /\ AppendLock(c)

AppendStoreOf(id) ==
    \E c \in 1..Len(calls) : calls[c].pl.ID = id /\ AppendStore(c)

RecvOf(i) ==
    \E c \in 1..Len(calls) :
        /\ calls[c].it = i
        /\ ContainsRecv(c) \/ ContainsClosed(c) \/ TraverseRecv(c) \/ TraverseClosed(c)

IterStepOf(i) == i \in 1..Len(iters) /\ (IterClose(i) \/ IterUnlock(i))

IterLockOf(i) == i \in 1..Len(iters) /\ IterLock(i)

Fairness ==
    \A k \in 1..MaxCalls :
        /\ SF_vars(AppendLockOf(k))
        /\ WF_vars(AppendStoreOf(k))
        /\ SF_vars(IterLockOf(k))
        /\ WF_vars(RecvOf(k))
        /\ WF_vars(IterStepOf(k))

FairSpec == Spec /\ Fairness

\* ------------------------------------------------------------------ claims
\* The Append call of the pipeline with this ID, the call that consumes the
\* channel of Iter goroutine i, is in progress.
AppendInProgress(id) == \E c \in 1..Len(calls) : calls[c].pl.ID = id

ConsumerInProgress(i) == \E c \in 1..Len(calls) : calls[c].it = i

\* C1: no lost updates.  Every pipeline whose Append has returned is in the
\* registry; once all K Append calls made have returned the registry holds
\* exactly K entries, the K pipelines appended; and a traversal asked for
\* after that yields K entries, each appended pipeline among them.
C1_NoLostUpdates ==
    /\ Range(returned) \subseteq Range(Pipelines)
    /\ Len(returned) = Len(invoked) =>
          /\ Len(Pipelines) = Len(invoked)
          /\ Range(Pipelines) = Range(invoked)
    /\ (obs.op = "Iter" /\ Len(obs.callRet) = Len(invoked)) =>
          /\ Len(obs.yielded) = Len(invoked)
          /\ Range(obs.yielded) = Range(invoked)

\* Two Append calls were in progress together (the one made first has
\* returned last) and both have returned.
C1_Witness ==
    /\ obs.op = "Append" /\ obs.pl.ID = 1
    /\ Len(invoked) = 2 /\ Len(returned) = 2
    /\ Len(Pipelines) = 2

\* C2: a Contains(n) call made after an Append of a pipeline named n has
\* returned returns true, if it returns; a Contains(n) call returns false if
\* no Append of a pipeline named n has ever been called.
C2_ContainsAfterAppend ==
    obs.op = "Contains" =>
        /\ obs.n \in NamesOf(obs.callRet) => obs.result
        /\ obs.n \notin NamesOf(invoked) => ~obs.result

\* Contains has returned true for a name appended second, before the call.
C2_Witness ==
    /\ obs.op = "Contains" /\ obs.result
    /\ Len(obs.callRet) = 2
    /\ obs.callRet[2].Name = obs.n /\ obs.callRet[1].Name # obs.n

\* C3 (as claimed): under fair scheduling every call eventually returns.
C3_EveryCallReturns ==
    \A k \in 1..MaxCalls :
        /\ AppendInProgress(k) ~> ~AppendInProgress(k)
        /\ ConsumerInProgress(k) ~> ~ConsumerInProgress(k)

\* The goroutine of an Iter whose consumer, Contains, has returned true is
\* still in its loop, blocked in the send with the mutex held.
LeakedLock ==
    \E i \in 1..Len(iters) :
        /\ Sending(i) /\ lock = ByIter(i)
        /\ ~ConsumerInProgress(i)

\* C4: a fully consumed traversal asked for when every Append call made had
\* returned, no Append being called meanwhile, yields exactly the entries
\* appended, in the order of the appends; and it yields what the traversal
\* consumed before it has yielded, if the registry has not changed since
\* that one was asked for.
C4_TraverseInOrder ==
    obs.op = "Iter" =>
        /\ Len(obs.callRet) = Len(invoked) =>
              /\ obs.yielded = hist
              /\ obs.yielded = obs.callRet
              /\ Len(obs.yielded) = Len(invoked)
        /\ (obs.prev.valid /\ obs.callRet = hist) => obs.yielded = obs.prev.yielded

\* A second traversal of a registry of two entries, unchanged since the first.
C4_Witness ==
    /\ obs.op = "Iter" /\ obs.prev.valid
    /\ Len(obs.callRet) = Len(invoked)
    /\ Len(obs.yielded) = 2

\* C5: a fully consumed traversal yields every pipeline whose Append had
\* returned when Iter was called.
C5_TraverseSeesReturned ==
    obs.op = "Iter" => Range(obs.callRet) \subseteq Range(obs.yielded)

\* A traversal has yielded an entry appended before the Iter call and one
\* appended by an Append that returned after the Iter call.
C5_Witness ==
    /\ obs.op = "Iter"
    /\ Len(obs.callRet) = 1
    /\ Len(obs.yielded) = 2

\* C6: a traversal sees the registry of one instant.  While an Iter goroutine
\* is between Lock and Unlock it holds the mutex and the registry is the one
\* it found when it locked; what its consumer has received so far are the
\* first entries of that registry, all of them once the channel is closed;
\* and a fully consumed traversal has yielded the registry as it was at one
\* instant between the Iter call and its end.
C6_TraverseSnapshot ==
    /\ \A i \in 1..Len(iters) :
          iters[i].pc \in {"loop", "unlock"} =>
              /\ lock = ByIter(i)
              /\ Pipelines = iters[i].snap
    /\ \A c \in 1..Len(calls) :
          (calls[c].op = "Iter" /\ iters[calls[c].it].pc \in {"loop", "unlock"}) =>
              LET it == iters[calls[c].it] IN
                /\ calls[c].yielded = SubSeq(it.snap, 1, it.idx - 1)
                /\ it.closed => calls[c].yielded = it.snap
    /\ obs.op = "Iter" =>
          /\ IsPrefix(obs.yielded, hist)
          /\ Len(obs.callRet) <= Len(obs.yielded)

\* A traversal has yielded the first of two entries while an Append call is
\* waiting for the mutex.
C6_Witness ==
    \E c \in 1..Len(calls), d \in 1..Len(calls) :
        /\ calls[c].op = "Iter" /\ Len(calls[c].yielded) = 1
        /\ Len(iters[calls[c].it].snap) = 2
        /\ calls[d].pc = "append_lock"

\* The pipelines named n appended by callers whose Contains(n) had returned
\* false, as indices of returned.
GuardedAppends(n) ==
    {k \in 1..Len(returned) : returned[k].Name = n /\ returned[k].ID \in guarded}

\* C7: Append enforces no uniqueness.  Every caller of
\* if !Contains(n) { Append(p) } that saw Contains return false and whose
\* Append has returned has added an entry named n of its own.
C7_CheckThenActRace ==
    \A n \in Names : CountName(Pipelines, n) >= Cardinality(GuardedAppends(n))

\* Two such callers have both seen false and both appended: the registry
\* holds two entries of the name.
C7_Witness ==
    \E n \in Names :
        /\ Cardinality(GuardedAppends(n)) = 2
        /\ CountName(Pipelines, n) = 2

\* C8: the registry is append-only.  Every step leaves the entries there are
\* in place; the registry changes only in the step in which an Append call
\* returns, and then the call's pipeline is added at the end; a step of a
\* Contains or Iter call or of an Iter goroutine leaves it unchanged.
C8_AppendOnly ==
    [][/\ IsPrefix(Pipelines, Pipelines')
       /\ Pipelines' # Pipelines =>
             \E c \in 1..Len(calls) :
                 /\ calls[c].pc = "append_store"
                 /\ Pipelines' = Pipelines \o <<calls[c].pl>>
       /\ returned' # returned =>
             /\ Len(Pipelines') = Len(Pipelines) + 1
             /\ Pipelines'[Len(Pipelines')] = returned'[Len(returned')]
       /\ (iters' # iters \/ obs'.op \in {"Contains", "Iter"}) =>
             Pipelines' = Pipelines]_vars

\* An Append has extended a registry of one entry after a Contains call.
C8_Witness ==
    /\ obs.op = "Append"
    /\ Len(Pipelines) = 2
    /\ Len(iters) >= 1

\* C9: NewBuildPipeline(t) is the nil BuildPipeline for every type but
\* GOLANG, and for GOLANG an instance whose Type is t.
C9_FactoryDispatch ==
    pure.phase \in {"built", "named", "parsed"} =>
        /\ pure.t = GOLANG => (~pure.bP.isNil /\ pure.bP.Type = pure.t)
        /\ pure.t # GOLANG => pure.bP = NilBuildPipeline

\* The factory has returned nil for a type without a case.
C9_Witness ==
    /\ pure.phase = "built"
    /\ pure.t = "java"
    /\ pure.bP.isNil

\* C10: the encoded name is the name, "_" and the type's string, and for a
\* name without "_" splitting it at the delimiter and reading the suffix as
\* a type gives back the name and the type.
C10_NamingRoundTrip ==
    /\ pure.phase \in {"named", "parsed"} =>
          pure.encoded = pure.n \o <<"_">> \o TypeString(pure.t)
    /\ (pure.phase = "parsed" /\ ~HasDelimiter(pure.n)) =>
          pure.parsed = <<pure.n, pure.t>>

\* A name of two characters without the delimiter has been encoded and read
\* back.
C10_Witness ==
    /\ pure.phase = "parsed"
    /\ Len(pure.n) = 2 /\ ~HasDelimiter(pure.n)
    /\ pure.parsed = <<pure.n, pure.t>>

\* C11: the lifecycle of a build attempt.  It starts Pending; a step of it
\* goes one stage forward on the path Pending, Preparing, Building, Copying,
\* Done, or from Building to TimedOut, or from a non-terminal state to
\* Failed, or stays in Building while time passes; an attempt that is Done,
\* Failed or TimedOut never changes; and in every non-terminal state the
\* step to Failed is possible.
C11_Lifecycle ==
    /\ \A b \in Builds : build[b].st = "Pending"
    /\ [][\A b \in Builds :
            LET s == build[b].st
                t == build'[b].st
            IN /\ build'[b] # build[b] => s \notin {"Done", "Failed", "TimedOut"}
               /\ build'[b] # build[b] =>
                     \/ <<s, t>> \in {<<"Pending", "Preparing">>, <<"Preparing", "Building">>,
                                      <<"Building", "Copying">>, <<"Copying", "Done">>}
                     \/ s = "Building" /\ t = "TimedOut"
                     \/ s \in {"Pending", "Preparing", "Building", "Copying"} /\ t = "Failed"
                     \/ s = "Building" /\ t = "Building"]_vars
    /\ [](\A b \in Builds :
            build[b].st \in {"Pending", "Preparing", "Building", "Copying"} =>
                ENABLED (\E kind \in AllErrorKinds : BuildFail(b, kind)))

\* One attempt has timed out and another has failed while copying.
C11_Witness ==
    \E b \in Builds, d \in Builds :
        /\ build[b].st = "TimedOut" /\ build[b].elapsed = maxTimeoutMinutes
        /\ build[d].st = "Failed" /\ build[d].stage = "Copying"

\* Iter goroutine i has ended: its channel is closed and it has unlocked.
IterEnded(i) ==
    /\ i \in 1..Len(iters)
    /\ iters[i].pc = "done" /\ iters[i].closed
    /\ lock # ByIter(i)

\* C12 (as claimed): after a Contains call has returned, true or false, the
\* goroutine of its Iter eventually closes the channel, unlocks and ends.
C12_ContainsEndsItsIter ==
    \A k \in 1..MaxCalls :
        (obs.op = "Contains" /\ obs.it = k) ~> IterEnded(k)

\* The Append calls between Lock and Unlock (by the ID of their pipeline)
\* and the Iter goroutines between Lock and Unlock.
AppendsInside == {calls[c].pl.ID : c \in {d \in 1..Len(calls) : calls[d].pc = "append_store"}}

ItersInside == {i \in 1..Len(iters) : iters[i].pc \in {"loop", "unlock"}}

\* C13: mutual exclusion.  At most one Append call or Iter goroutine is
\* between its Lock and its Unlock, and it is the holder of the mutex; so an
\* Iter goroutine yields (is in its loop) only while no Append call and no
\* other Iter goroutine is inside, and an Append stores only while no Iter
\* goroutine is inside.
C13_MutualExclusion ==
    /\ Cardinality(AppendsInside) + Cardinality(ItersInside) <= 1
    /\ \A id \in AppendsInside : lock = <<"append", id>>
    /\ \A i \in ItersInside : lock = <<"iter", i>>
    /\ (AppendsInside = {} /\ ItersInside = {}) => lock = <<"free", 0>>
    /\ \A i \in 1..Len(iters) :
          Sending(i) => (AppendsInside = {} /\ ItersInside = {i})

\* An Append call is between Lock and Unlock while the goroutine of an Iter
\* whose consumer is receiving waits in Lock.
C13_Witness ==
    \E c \in 1..Len(calls), d \in 1..Len(calls) :
        /\ calls[c].pc = "append_store"
        /\ calls[d].pc = "recv"
        /\ iters[calls[d].it].pc = "lock"

\* C14: Contains is linearizable.  A Contains(n) call that returns has
\* returned whether an entry named n was in the registry at one instant
\* between its call and its return (the registry only grows, so its contents
\* in between are the prefixes of hist from the one at the call on); if it
\* has returned true an Append of a pipeline named n had been called, and if
\* it has returned false no Append of a pipeline named n had returned when
\* Contains was called.
C14_ContainsLinearizable ==
    obs.op = "Contains" =>
        /\ IsPrefix(obs.callRet, hist)
        /\ \E k \in Len(obs.callRet)..Len(hist) :
              obs.result = (obs.n \in NamesOf(SubSeq(hist, 1, k)))
        /\ obs.result => \E k \in 1..Len(invoked) : invoked[k].Name = obs.n
        /\ ~obs.result => \A k \in 1..Len(obs.callRet) : obs.callRet[k].Name # obs.n

\* Contains has returned true for a name whose only Append returned after
\* the Contains call was made.
C14_Witness ==
    /\ obs.op = "Contains" /\ obs.result
    /\ obs.n \notin NamesOf(obs.callRet)
    /\ CountName(hist, obs.n) = 1

\* The IDs of the pipelines in s, and the index in s of the one with this ID.
IDsOf(s) == {s[k].ID : k \in 1..Len(s)}

IndexOf(s, id) == CHOOSE k \in 1..Len(s) : s[k].ID = id

\* s holds a before b if it holds both.
InOrder(s, a, b) ==
    (a \in IDsOf(s) /\ b \in IDsOf(s)) => IndexOf(s, a) < IndexOf(s, b)

\* C15: Append calls are ordered as in real time.  If Append(a) had returned
\* when Append(b) was called, then from then on a is in the registry, and
\* once b is there a's index is smaller than b's; and every traversal, fully
\* consumed or still being consumed, that has yielded both has yielded a
\* before b.
C15_AppendRealTimeOrder ==
    \A pr \in before :
        /\ pr[1] \in IDsOf(Pipelines)
        /\ InOrder(Pipelines, pr[1], pr[2])
        /\ obs.op = "Iter" => InOrder(obs.yielded, pr[1], pr[2])
        /\ \A c \in 1..Len(calls) :
              calls[c].op = "Iter" => InOrder(calls[c].yielded, pr[1], pr[2])

\* A traversal has yielded three entries: the second Append called returned
\* before the third was called, the first Append called was still in
\* progress then.
C15_Witness ==
    /\ obs.op = "Iter" /\ Len(obs.yielded) = 3
    /\ <<2, 3>> \in before /\ <<1, 3>> \notin before
    /\ IndexOf(obs.yielded, 2) < IndexOf(obs.yielded, 3)

\* A caller that consumes the channel of Iter goroutine i itself is receiving.
TraversalInProgress(i) ==
    \E c \in 1..Len(calls) : calls[c].op = "Iter" /\ calls[c].it = i

\* C16 (as claimed): a traversal whose consumer keeps receiving ends under
\* fair scheduling: its goroutine closes the channel, unlocks and ends.
C16_TraversalTerminates ==
    \A k \in 1..MaxCalls : TraversalInProgress(k) ~> IterEnded(k)

====
